---- MODULE Spec2Model ----
(***************************************************************************)
(* Blocked Bloom filter (sketch::bf::bfbase_t, include/sketch/bf.h).       *)
(*                                                                         *)
(* A 64-bit value (uint64_t: a storage word, a seed, an item, a digest, a  *)
(* mask) is the set of its set bit positions, a subset of 0..63.  Bit      *)
(* operations are then exact: & is \cap, | is \cup, ^ is the symmetric     *)
(* difference, >> k drops the positions below k and renumbers the rest.    *)
(* Values that the code uses as sizes, counters and indices are naturals.  *)
(***************************************************************************)
EXTENDS Naturals, Integers, Sequences, FiniteSets, TLC

VARIABLES
    COUNT,   \* Space::COUNT, the number of 64-bit lanes of one SIMD vector
    a,       \* the filter the operations are called on (*this)
    b,       \* a second filter, the `other' operand
    fp,      \* the byte stream between write and read (empty: no file)
    last,    \* the last call: its name, arguments, return value, and *this before it
    ssi,     \* the SetSketchIndex
    inserted \* the sketches update() has accepted, in the order of the calls

vars == <<COUNT, a, b, fp, last, ssi, inserted>>

----------------------------------------------------------------------------
(* Bounds of the model. *)

\* constructor argument l2sz ranges over OFFSET+1 .. MaxL2sz
MaxL2sz == 8
\* items added and queried are the 64-bit values 1 .. NumItems
NumItems == 2
\* constructor argument seedval ranges over 1 .. MaxSeedseed
MaxSeedseed == 2
\* sketches have at most MaxM registers
MaxM == 4
\* at most NumSketches different sketches of one length
NumSketches == 2
\* at most MaxInserts calls of update succeed
MaxInserts == 3

(* Program constants. *)

\* static constexpr unsigned OFFSET = 6
OFFSET == 6
\* sizeof(uint64_t) * CHAR_BIT
WORDBITS == 64
\* the constructor rejects np_ > 40u
MAXNP == 40
\* halve() takes the scalar loop when np_ < 17
HALVE_SCALAR_BELOW == 17
\* the unrolled loops run when core_.size() / Space::COUNT >= 8
UNROLL == 8
\* the literal 0x63u in the batch may_contain's resize
BATCH_MASK == 99
\* write() refuses more than 255 seeds
MAXSEEDS == 255

----------------------------------------------------------------------------
(* 64-bit values as sets of bit positions. *)

Min(x, y) == IF x <= y THEN x ELSE y

Pow2(k) == 2 ^ k

\* the value of a bit set as a natural (used only on masked indices and small numbers)
RECURSIVE ToNatFrom(_, _)
ToNatFrom(w, k) ==
    IF k > 30 THEN 0
    ELSE (IF k \in w THEN 1 ELSE 0) + 2 * ToNatFrom(w, k + 1)

ToNat(w) == ToNatFrom(w, 0)

\* the bits of a natural below 2^31
FromNat(n) == {k \in 0..30 : (n \div Pow2(k)) % 2 = 1}

\* x ^ y
Xor(x, y) == (x \ y) \cup (y \ x)

\* x >> k
Shr(w, k) == {c - k : c \in {d \in w : d >= k}}

\* popcount(x)
popcount(w) == Cardinality(w)

\* ctz(x), x != 0
ctz(w) == CHOOSE x \in w : \A y \in w : x <= y

\* the bitwise and of two naturals (nvals & 0x63u)
NatAnd(x, y) == ToNat(FromNat(x) \cap FromNat(y))

\* roundup(x): the least power of two >= x
RECURSIVE roundup_from(_, _)
roundup_from(x, pw) == IF pw >= x THEN pw ELSE roundup_from(x, 2 * pw)
roundup(x) == roundup_from(x, 1)

\* ilog2(x): floor(log2 x), x >= 1
RECURSIVE ilog2(_)
ilog2(x) == IF x <= 1 THEN 0 ELSE 1 + ilog2(x \div 2)

\* the outcome of a call that can throw: the exception, or the value returned
Throw == [threw |-> TRUE, val |-> {}]
Return(v) == [threw |-> FALSE, val |-> v]

RECURSIVE SumSeq(_)
SumSeq(s) == IF s = <<>> THEN 0 ELSE Head(s) + SumSeq(Tail(s))

----------------------------------------------------------------------------
(* Collaborators of the filter that live outside bf.h. *)

\* lut::nhashesper64bitword[p]: how many p-bit sub-hashes one 64-bit digest gives
nhashesper64bitword(pp) == WORDBITS \div pp

\* the k-th value (k = 1, 2, ...) that std::mt19937_64 seeded with seedseed emits
mt19937_64(seedseed, k) == FromNat((seedseed * 7919 + k * 104729) % 1048573)

\* hf_ (HashStruct, WangHash by default): a fixed 64-bit mixing function.
\* Every bit of the digest depends on the whole input.
hf_mix(v) ==
    LET n == (ToNat(v \cap (0..19)) + 977 * Cardinality(v \ (0..19))) % 1021
    IN  {k \in 0..(WORDBITS - 1) :
            ((n + 5) * (k + 3) * (k + 11) + (n \div 3) * k + (k \div 7) * (n + 1)) % 13 < 6}

\* the digests of the values the filters of this model hash (an item xor a seed
\* of one of the seedseeds, or xor a zero seed), computed once
hf_inputs ==
    {Xor(FromNat(x), s) :
        x \in 1..NumItems,
        s \in {{}} \cup {mt19937_64(ss, k) : ss \in 1..MaxSeedseed, k \in 1..12}}

hf_table == [v \in hf_inputs |-> hf_mix(v)]

hf(v) == IF v \in hf_inputs THEN hf_table[v] ELSE hf_mix(v)

----------------------------------------------------------------------------
(* bfbase_t: the attributes and the accessors. *)

\* A filter is [np_, nh_, core_, seeds_, seedseed_, mask_]; hf_ (WangHash) has no state.
p(f) == f.np_ + OFFSET

m(f) == Len(f.core_) * WORDBITS

ZeroWords(n) == [i \in 1..n |-> {}]

\* std::vector::resize(n): keeps the first n elements, appends zeros
vector_resize(v, n) == [i \in 1..n |-> IF i <= Len(v) THEN v[i] ELSE {}]

\* clear(): each of the three branches (memset, vector stores, std::fill) zeroes
\* every word of core_
clear(f) ==
    IF Len(f.core_) >= 65536
    THEN [f EXCEPT !.core_ = ZeroWords(Len(f.core_))]
    ELSE IF Len(f.core_) >= COUNT
         THEN [f EXCEPT !.core_ = ZeroWords(Len(f.core_))]
         ELSE [f EXCEPT !.core_ = [i \in 1..Len(f.core_) |-> {}]]

\* reseed(): draws from a fresh mt19937_64(seedseed) and appends the values that
\* are not yet in seeds_ until seeds_.size() * nperhash64 >= nh_
RECURSIVE reseed_loop(_, _, _, _, _)
reseed_loop(seeds, nh, nperhash64, seedseed, k) ==
    IF Len(seeds) * nperhash64 >= nh THEN seeds
    ELSE LET val == mt19937_64(seedseed, k)
         IN  IF \E i \in 1..Len(seeds) : seeds[i] = val
             THEN reseed_loop(seeds, nh, nperhash64, seedseed, k + 1)
             ELSE reseed_loop(Append(seeds, val), nh, nperhash64, seedseed, k + 1)

reseed(f, seedseed) ==
    LET ss == IF seedseed = 0 THEN f.seedseed_ ELSE seedseed
    IN  [f EXCEPT !.seeds_ =
            reseed_loop(f.seeds_, f.nh_, nhashesper64bitword(p(f)), ss, 1)]

\* resize(new_size)
resize(f, new_size) ==
    LET ns == roundup(new_size)
        f0 == clear(f)
        f1 == clear([f0 EXCEPT !.core_ = vector_resize(@, ns \div WORDBITS)])
        f2 == [f1 EXCEPT !.np_ = (ilog2(ns) + 256 - OFFSET) % 256]
        f3 == reseed(f2, 0)
    IN  [f3 EXCEPT !.mask_ = FromNat(ns - 1)]

\* bfbase_t(l2sz, nhashes, seedval): throws when np_ > 40.  mask_ has no
\* initialiser: uninit is the indeterminate value it holds until resize sets it.
bfbase_t(l2sz, nhashes, seedval, uninit) ==
    LET f0 == [np_ |-> IF l2sz > OFFSET THEN l2sz - OFFSET ELSE 0,
               nh_ |-> nhashes % 256,
               core_ |-> <<>>, seeds_ |-> <<>>,
               seedseed_ |-> seedval, mask_ |-> uninit]
    IN  IF f0.np_ > MAXNP THEN Throw
        ELSE IF f0.np_ # 0 THEN Return(resize(f0, Pow2(p(f0)))) ELSE Return(f0)

\* operator=(const bfbase_t &other): core_, np_, nh_ and seedseed_ are assigned;
\* mask_ and seeds_ are not
operator_assign(f, other) ==
    [f EXCEPT !.core_ = other.core_, !.np_ = other.np_, !.nh_ = other.nh_,
              !.seedseed_ = other.seedseed_]

\* clone(): bfbase_t(np_, nh_, seedseed_)
clone(f, uninit) == bfbase_t(f.np_, f.nh_, f.seedseed_, uninit)

\* a same_params that compares the sizes alone
same_params_size_only(f, other) == f.np_ = other.np_

\* same_params(other)
same_params(f, other) ==
    <<f.np_, f.nh_, f.seedseed_>> = <<other.np_, other.nh_, other.seedseed_>>

----------------------------------------------------------------------------
(* Single bits. *)

\* the bit index ind & mask_
masked(f, ind) == ToNat(ind \cap f.mask_)

\* every index that mask_ lets through addresses a word of core_, and the seeds
\* that nh_ hashes read exist; otherwise set1 / is_set / *sptr leave the vectors
Addressable(f) ==
    /\ Len(f.core_) > 0
    /\ f.mask_ \subseteq 0..30
    /\ ToNat(f.mask_) < m(f)
    /\ Len(f.seeds_) * nhashesper64bitword(p(f)) >= f.nh_

set1(f, ind) ==
    LET i == masked(f, ind)
    IN  [f EXCEPT !.core_[(i \div WORDBITS) + 1] = @ \cup {i % WORDBITS}]

is_set(f, ind) ==
    LET i == masked(f, ind)
    IN  (i % WORDBITS) \in f.core_[(i \div WORDBITS) + 1]

\* is_set_and_set1 returns the old bit and sets it: <<filter, bool>>
is_set_and_set1(f, ind) ==
    LET i == masked(f, ind)
        ret == (i % WORDBITS) \in f.core_[(i \div WORDBITS) + 1]
    IN  <<[f EXCEPT !.core_[(i \div WORDBITS) + 1] = @ \cup {i % WORDBITS}], ret>>

\* all_set(hv, n, shift): returns at the first clear bit
RECURSIVE all_set_from(_, _, _, _, _)
all_set_from(f, hv, n, shift, i) ==
    IF i >= n THEN TRUE
    ELSE IF ~is_set(f, Shr(hv, i * shift)) THEN FALSE
    ELSE all_set_from(f, hv, n, shift, i + 1)

all_set(f, hv, n, shift) ==
    IF ~is_set(f, hv) THEN FALSE ELSE all_set_from(f, hv, n, shift, 1)

\* an all_set_and_set1 that leaves at the first clear bit, as all_set does
RECURSIVE all_set_and_set1_short_circuit(_, _, _, _, _)
all_set_and_set1_short_circuit(fr, hv, n, shift, i) ==
    IF i >= n \/ ~fr[2] THEN fr
    ELSE LET r == is_set_and_set1(fr[1], Shr(hv, i * shift))
         IN  all_set_and_set1_short_circuit(<<r[1], fr[2] /\ r[2]>>, hv, n, shift, i + 1)

\* all_set_and_set1(hv, n, shift): ret &= is_set_and_set1(...) for every i < n
RECURSIVE all_set_and_set1_from(_, _, _, _, _)
all_set_and_set1_from(fr, hv, n, shift, i) ==
    IF i >= n THEN fr
    ELSE LET r == is_set_and_set1(fr[1], Shr(hv, i * shift))
         IN  all_set_and_set1_from(<<r[1], fr[2] /\ r[2]>>, hv, n, shift, i + 1)

all_set_and_set1(f, hv, n, shift) ==
    all_set_and_set1_from(is_set_and_set1(f, hv), hv, n, shift, 1)

\* sub_set1(hv, n, shift)
RECURSIVE sub_set1_from(_, _, _, _, _)
sub_set1_from(f, hv, n, shift, subhind) ==
    IF subhind >= n THEN f
    ELSE sub_set1_from(set1(f, Shr(hv, subhind * shift)), hv, n, shift, subhind + 1)

sub_set1(f, hv, n, shift) == sub_set1_from(set1(f, hv), hv, n, shift, 1)

----------------------------------------------------------------------------
(* addh: seeds are read a vector at a time while more than one vector's worth *)
(* of hashes is left, then one at a time.  sp counts the seeds consumed.      *)

\* v.for_each over the COUNT lanes of hf_(set1(element) ^ seeds[sp .. sp+COUNT-1])
RECURSIVE addh_lanes(_, _, _, _)
addh_lanes(f, element, sp, lane) ==
    IF lane >= COUNT THEN f
    ELSE addh_lanes(sub_set1(f, hf(Xor(element, f.seeds_[sp + lane + 1])),
                             nhashesper64bitword(p(f)), p(f)),
                    element, sp, lane + 1)

\* an addh tail that stops after the first seed
addh_scalar_first_seed(f, element, nleft, sp) ==
    IF nleft = 0 THEN f
    ELSE sub_set1(f, hf(Xor(element, f.seeds_[sp + 1])),
                  Min(nhashesper64bitword(p(f)), nleft), p(f))

RECURSIVE addh_scalar(_, _, _, _)
addh_scalar(f, element, nleft, sp) ==
    IF nleft = 0 THEN f
    ELSE LET todo == Min(nhashesper64bitword(p(f)), nleft)
         IN  addh_scalar(sub_set1(f, hf(Xor(element, f.seeds_[sp + 1])), todo, p(f)),
                         element, nleft - todo, sp + 1)

RECURSIVE addh_simd(_, _, _, _)
addh_simd(f, element, nleft, sp) ==
    IF nleft > COUNT * nhashesper64bitword(p(f))
    THEN addh_simd(addh_lanes(f, element, sp, 0), element,
                   nleft - COUNT * nhashesper64bitword(p(f)), sp + COUNT)
    ELSE addh_scalar(f, element, nleft, sp)

addh(f, element) == addh_simd(f, element, f.nh_, 0)

----------------------------------------------------------------------------
(* may_contain(val): the same walk over the seeds, with all_set; leaves at the *)
(* first vector or seed that misses                                           *)

RECURSIVE may_contain_lanes(_, _, _, _)
may_contain_lanes(f, val, sp, lane) ==
    IF lane >= COUNT THEN TRUE
    ELSE /\ all_set(f, hf(Xor(val, f.seeds_[sp + lane + 1])),
                    nhashesper64bitword(p(f)), p(f))
         /\ may_contain_lanes(f, val, sp, lane + 1)

RECURSIVE may_contain_scalar(_, _, _, _)
may_contain_scalar(f, val, nleft, sp) ==
    IF nleft = 0 THEN TRUE
    ELSE IF ~all_set(f, hf(Xor(val, f.seeds_[sp + 1])),
                     Min(nhashesper64bitword(p(f)), nleft), p(f))
         THEN FALSE
         ELSE may_contain_scalar(f, val,
                  nleft - Min(nhashesper64bitword(p(f)), nleft), sp + 1)

RECURSIVE may_contain_simd(_, _, _, _)
may_contain_simd(f, val, nleft, sp) ==
    IF nleft > COUNT * nhashesper64bitword(p(f))
    THEN IF ~may_contain_lanes(f, val, sp, 0) THEN FALSE
         ELSE may_contain_simd(f, val, nleft - COUNT * nhashesper64bitword(p(f)),
                               sp + COUNT)
    ELSE may_contain_scalar(f, val, nleft, sp)

may_contain(f, val) == may_contain_simd(f, val, f.nh_, 0)

----------------------------------------------------------------------------
(* may_contain_and_addh(val): the same walk with all_set_and_set1, never leaving *)
(* early.  The value is <<filter, ret>>.                                        *)

RECURSIVE may_contain_and_addh_lanes(_, _, _, _)
may_contain_and_addh_lanes(fr, val, sp, lane) ==
    IF lane >= COUNT THEN fr
    ELSE LET r == all_set_and_set1(fr[1], hf(Xor(val, fr[1].seeds_[sp + lane + 1])),
                                   nhashesper64bitword(p(fr[1])), p(fr[1]))
         IN  may_contain_and_addh_lanes(<<r[1], fr[2] /\ r[2]>>, val, sp, lane + 1)

RECURSIVE may_contain_and_addh_scalar(_, _, _, _)
may_contain_and_addh_scalar(fr, val, nleft, sp) ==
    IF nleft = 0 THEN fr
    ELSE LET todo == Min(nhashesper64bitword(p(fr[1])), nleft)
             r == all_set_and_set1(fr[1], hf(Xor(val, fr[1].seeds_[sp + 1])),
                                   todo, p(fr[1]))
         IN  may_contain_and_addh_scalar(<<r[1], fr[2] /\ r[2]>>, val,
                                         nleft - todo, sp + 1)

RECURSIVE may_contain_and_addh_simd(_, _, _, _)
may_contain_and_addh_simd(fr, val, nleft, sp) ==
    IF nleft > COUNT * nhashesper64bitword(p(fr[1]))
    THEN may_contain_and_addh_simd(may_contain_and_addh_lanes(fr, val, sp, 0), val,
             nleft - COUNT * nhashesper64bitword(p(fr[1])), sp + COUNT)
    ELSE may_contain_and_addh_scalar(fr, val, nleft, sp)

may_contain_and_addh(f, val) == may_contain_and_addh_simd(<<f, TRUE>>, val, f.nh_, 0)

----------------------------------------------------------------------------
(* Whole-storage operations. *)

\* the word at 0-based position i of core_; a vector load that runs past the end
\* of the allocation reads junk
word_at(f, i, junk) == IF i < Len(f.core_) THEN f.core_[i + 1] ELSE junk

\* popcnt_fn of the vector at vector position k: one count per lane
popcnt_fn(f, k, junk) ==
    [lane \in 1..COUNT |-> popcount(word_at(f, k * COUNT + lane - 1, junk))]

\* Space::add: lane by lane
vec_add(x, y) == [lane \in 1..COUNT |-> x[lane] + y[lane]]

sum_of_u64s(x) == SumSeq(x)

\* popcnt(): sum = popcnt_fn(*op++); while(op < ep) sum = add(sum, popcnt_fn(*op++))
RECURSIVE popcnt_loop(_, _, _, _)
popcnt_loop(f, sum, op, junk) ==
    IF op * COUNT < Len(f.core_)
    THEN popcnt_loop(f, vec_add(sum, popcnt_fn(f, op, junk)), op + 1, junk)
    ELSE sum

popcnt(f, junk) == sum_of_u64s(popcnt_loop(f, popcnt_fn(f, 0, junk), 1, junk))

\* halve(): ORs the upper half onto the lower half.  Below np_ = 17 it returns
\* right after the loop; from 17 on it also shrinks core_.  Neither path writes
\* np_ or mask_.
halve(f) ==
    LET half == Len(f.core_) \div 2
        folded == [i \in 1..Len(f.core_) |->
                      IF i <= half THEN f.core_[i] \cup f.core_[i + half]
                      ELSE f.core_[i]]
    IN  IF f.np_ < HALVE_SCALAR_BELOW
        THEN [f EXCEPT !.core_ = folded]
        ELSE [f EXCEPT !.core_ = vector_resize(folded, half)]

\* the inner loop of for_each_nonzero on one word: func(index + ctz(v)), v ^= v & -v
RECURSIVE for_each_bit(_, _, _)
for_each_bit(v, index, out) ==
    IF v = {} THEN out
    ELSE for_each_bit(v \ {ctz(v)}, index, Append(out, index + ctz(v)))

\* for_each_nonzero(func): the sequence of arguments func is called with.
\* do { v = *it++; if(v == 0) continue; ...; index += 64; } while(it < end);
\* the continue goes to the loop test and skips the index += 64.
RECURSIVE for_each_nonzero_loop(_, _, _, _)
for_each_nonzero_loop(f, it, index, out) ==
    LET v == f.core_[it + 1]
        out1 == IF v = {} THEN out ELSE for_each_bit(v, index, out)
        index1 == IF v = {} THEN index ELSE index + WORDBITS
    IN  IF it + 1 < Len(f.core_)
        THEN for_each_nonzero_loop(f, it + 1, index1, out1)
        ELSE out1

for_each_nonzero(f) == for_each_nonzero_loop(f, 0, 0, <<>>)

\* to_sparse_representation(): pushes every index for_each_nonzero reports
to_sparse_representation(f) == for_each_nonzero(f)

----------------------------------------------------------------------------
(* may_contain(vals, nvals, ret): the batch query.  The value is            *)
(* [ret |-> the words of ret, oob |-> whether a store went past ret.end()]. *)

AllOnes == 0..(WORDBITS - 1)

\* for(i = 0; i < nvals; ++i) ret[i >> 6] &= UINT64_C(-1) ^ (uint64_t(!ok(i)) << (i & 63u));
\* the store is made for every i, whatever ok(i) is
batch_stores(r, nvals, ok(_)) ==
    [ret |-> [w \in 1..Len(r.ret) |->
                r.ret[w] \ {j \in 0..(WORDBITS - 1) :
                               /\ WORDBITS * (w - 1) + j < nvals
                               /\ ~ok(WORDBITS * (w - 1) + j)}],
     oob |-> r.oob \/ (nvals > 0 /\ ((nvals - 1) \div WORDBITS) + 1 > Len(r.ret))]

\* one vector of seeds: every lane's all_set for item i
batch_lanes_ok(f, vals, sp, i) ==
    \A lane \in 0..(COUNT - 1) :
        all_set(f, hf(Xor(vals[i + 1], f.seeds_[sp + lane + 1])),
                nhashesper64bitword(p(f)), p(f))

\* one seed
batch_scalar_ok(f, vals, nleft, sp, i) ==
    all_set(f, hf(Xor(vals[i + 1], f.seeds_[sp + 1])),
            Min(nhashesper64bitword(p(f)), nleft), p(f))

RECURSIVE batch_scalar(_, _, _, _, _)
batch_scalar(f, vals, r, nleft, sp) ==
    IF nleft = 0 THEN r
    ELSE batch_scalar(f, vals,
             batch_stores(r, Len(vals), LAMBDA i : batch_scalar_ok(f, vals, nleft, sp, i)),
             nleft - Min(nhashesper64bitword(p(f)), nleft), sp + 1)

RECURSIVE batch_simd(_, _, _, _, _)
batch_simd(f, vals, r, nleft, sp) ==
    IF nleft > COUNT * nhashesper64bitword(p(f))
    THEN batch_simd(f, vals,
             batch_stores(r, Len(vals), LAMBDA i : batch_lanes_ok(f, vals, sp, i)),
             nleft - COUNT * nhashesper64bitword(p(f)), sp + COUNT)
    ELSE batch_scalar(f, vals, r, nleft, sp)

\* ret.resize((nvals >> 6) + ((nvals & 0x63u) != 0), UINT64_C(-1))
batch_ret_size(nvals) ==
    (nvals \div WORDBITS) + (IF NatAnd(nvals, BATCH_MASK) # 0 THEN 1 ELSE 0)

batch_may_contain(f, vals) ==
    batch_simd(f, vals,
               [ret |-> [w \in 1..batch_ret_size(Len(vals)) |-> AllOnes], oob |-> FALSE],
               f.nh_, 0)

----------------------------------------------------------------------------
(* Set algebra.  Every operator first tests same_params and throws; then it *)
(* combines whole vectors: core_.size() / Space::COUNT of them.              *)

\* the words of the first nvec vectors are combined with other's, the rest stay
combine(f, other, fn(_, _), nvec) ==
    [f EXCEPT !.core_ =
        [w \in 1..Len(f.core_) |->
            IF (w - 1) \div COUNT < nvec THEN fn(f.core_[w], other.core_[w])
            ELSE f.core_[w]]]

and_fn(x, y) == x \cap y
or_fn(x, y) == x \cup y
xor_fn(x, y) == Xor(x, y)

\* for(i = 0; i < n;) { 8 vectors }: the test is made every 8 vectors
up_to_8(n) == ((n + UNROLL - 1) \div UNROLL) * UNROLL
\* for(i = 0; i + 8 <= n; i += 8) { 8 vectors }
down_to_8(n) == (n \div UNROLL) * UNROLL

\* operator&=
and_assign(f, other) ==
    IF ~same_params(f, other) THEN Throw
    ELSE LET n == Len(f.core_) \div COUNT
         IN  IF n >= UNROLL THEN Return(combine(f, other, and_fn, up_to_8(n)))
             ELSE Return(combine(f, other, and_fn, n))

\* operator^=
xor_assign(f, other) ==
    IF ~same_params(f, other) THEN Throw
    ELSE LET n == Len(f.core_) \div COUNT
         IN  IF n >= UNROLL THEN Return(combine(f, other, xor_fn, up_to_8(n)))
             ELSE Return(combine(f, other, xor_fn, n))

\* operator|=
or_assign(f, other) ==
    IF ~same_params(f, other) THEN Throw
    ELSE LET n == Len(f.core_) \div COUNT
         IN  IF n >= UNROLL THEN Return(combine(f, other, or_fn, down_to_8(n)))
             ELSE Return(combine(f, other, or_fn, n))

\* operator+=
plus_assign(f, other) == or_assign(f, other)

\* DEFOP(&), DEFOP(|), DEFOP(^): bfbase_t ret(*this); ret op= other; return ret;
op_and(f, other) == and_assign(f, other)
op_or(f, other) == or_assign(f, other)
op_xor(f, other) == xor_assign(f, other)

\* operator+
op_plus(f, other) ==
    IF ~same_params(f, other) THEN Throw ELSE plus_assign(f, other)

----------------------------------------------------------------------------
(* Comparisons.  Each tests other.m() != m() and throws. *)

\* popcnt_fn(and_fn(load(op), load(tc))) for the vectors at position k
and_popcnt(f, other, k, junk) ==
    [lane \in 1..COUNT |->
        popcount(word_at(other, k * COUNT + lane - 1, junk)
                 \cap word_at(f, k * COUNT + lane - 1, junk))]

\* the loops of intersection_count after the first vector: 7 + 8 * (n/8 - 1)
\* unrolled iterations when n >= 8, then while(op < endp)
RECURSIVE intersection_loop(_, _, _, _, _)
intersection_loop(f, other, sum, op, junk) ==
    IF op * COUNT < Len(other.core_)
    THEN intersection_loop(f, other, vec_add(sum, and_popcnt(f, other, op, junk)),
                           op + 1, junk)
    ELSE sum

RECURSIVE intersection_unrolled(_, _, _, _, _, _)
intersection_unrolled(f, other, sum, op, todo, junk) ==
    IF todo = 0 THEN intersection_loop(f, other, sum, op, junk)
    ELSE intersection_unrolled(f, other, vec_add(sum, and_popcnt(f, other, op, junk)),
                               op + 1, todo - 1, junk)

intersection_count(f, other, junk) ==
    IF m(other) # m(f) THEN Throw
    ELSE LET n == Len(f.core_) \div COUNT
             unrolled == IF n >= UNROLL THEN (UNROLL - 1) + UNROLL * ((n \div UNROLL) - 1)
                         ELSE 0
         IN  Return(sum_of_u64s(intersection_unrolled(f, other,
                        and_popcnt(f, other, 0, junk), 1, unrolled, junk)))

\* PERFORM_ITER on the accumulators acc = <<sum1, sum2, sumu>>:
\*   l1 = *op++; l2 = *tc++;
\*   sum1 = add(sum1, popcnt(l1)); sum2 = add(sum2, popcnt(l2));
\*   tmp = or(l1, l2); sum2 = add(sumu, popcnt(tmp));
PERFORM_ITER(f, other, acc, op) ==
    LET l1 == [lane \in 1..COUNT |-> word_at(other, op * COUNT + lane - 1, {})]
        l2 == [lane \in 1..COUNT |-> word_at(f, op * COUNT + lane - 1, {})]
        sum1 == [lane \in 1..COUNT |-> acc[1][lane] + popcount(l1[lane])]
        sum2 == [lane \in 1..COUNT |-> acc[3][lane] + popcount(l1[lane] \cup l2[lane])]
    IN  <<sum1, sum2, acc[3]>>

RECURSIVE jaccard_loop(_, _, _, _)
jaccard_loop(f, other, acc, op) ==
    IF op * COUNT < Len(other.core_)
    THEN jaccard_loop(f, other, PERFORM_ITER(f, other, acc, op), op + 1)
    ELSE acc

RECURSIVE jaccard_unrolled(_, _, _, _, _)
jaccard_unrolled(f, other, acc, op, todo) ==
    IF todo = 0 THEN jaccard_loop(f, other, acc, op)
    ELSE jaccard_unrolled(f, other, PERFORM_ITER(f, other, acc, op), op + 1, todo - 1)

\* the three sums <<usum1, usum2, usumu>> both Jaccard functions end with: the
\* first vector of each filter is loaded before the loops (op = 1 afterwards) and
\* every PERFORM_ITER loads the next one
jaccard_sums(f, other) ==
    LET zero == [lane \in 1..COUNT |-> 0]
        n == Len(f.core_) \div COUNT
        unrolled == IF n >= UNROLL THEN (UNROLL - 1) + UNROLL * ((n \div UNROLL) - 1)
                    ELSE 0
        acc == jaccard_unrolled(f, other, <<zero, zero, zero>>, 1, unrolled)
    IN  <<sum_of_u64s(acc[1]), sum_of_u64s(acc[2]), sum_of_u64s(acc[3])>>

\* setbit_jaccard_index: double(usum1 + usum2 - usumu) / usumu, as the pair of
\* the numerator and the denominator of that division
setbit_jaccard_index(f, other) ==
    IF m(other) # m(f) THEN Throw
    ELSE LET u == jaccard_sums(f, other)
         IN  Return([num |-> u[1] + u[2] - u[3], den |-> u[3]])

\* jaccard_index: the three sums its logarithms are taken of
jaccard_index(f, other) ==
    IF m(other) # m(f) THEN Throw
    ELSE LET u == jaccard_sums(f, other)
         IN  Return([usum1 |-> u[1], usum2 |-> u[2], usumu |-> u[3]])

----------------------------------------------------------------------------
(* Serialization.  The stream is the sequence of the fields written: three  *)
(* bytes, the sizeof(hf_) bytes of the functor, then 64-bit values.          *)

\* write(fp)
write(f) ==
    IF Len(f.seeds_) > MAXSEEDS THEN Throw
    ELSE Return(<<f.np_, f.nh_, Len(f.seeds_) % 256, "hf_", f.seedseed_, f.mask_>>
                \o f.seeds_ \o f.core_)

\* gzread of n 64-bit values at position pos (1-based) into the vector v: a short
\* read leaves the tail of v as it was
gzread_words(stream, pos, v) ==
    [i \in 1..Len(v) |-> IF pos + i - 1 <= Len(stream) THEN stream[pos + i - 1] ELSE v[i]]

\* read(fp): arr, seeds_.resize(arr[2]), hf_, seedseed_, mask_, resize, core_.
\* Nothing reads the seeds: the words of core_ are taken from where they start.
read(f, stream) ==
    LET f1 == [f EXCEPT !.np_ = stream[1], !.nh_ = stream[2],
                        !.seeds_ = vector_resize(f.seeds_, stream[3]),
                        !.seedseed_ = stream[5], !.mask_ = stream[6]]
        f2 == IF f1.np_ # 0 THEN resize(f1, Pow2(p(f1))) ELSE f1
    IN  [f2 EXCEPT !.core_ = gzread_words(stream, 7, f2.core_)]

\* the members of an object whose constructor body (bfbase_t(path)) has not run
\* yet: empty vectors; the scalars are indeterminate and read() overwrites them
fresh == [np_ |-> 0, nh_ |-> 0, core_ |-> <<>>, seeds_ |-> <<>>,
          seedseed_ |-> 0, mask_ |-> {}]

----------------------------------------------------------------------------
(* SetSketchIndex: the LSH index over sketches of m_ registers.  An index is *)
(* [m_, packed_maps_, regs_per_reg_, total_ids_]; packed_maps_[i + 1] is the *)
(* HashV of table i, a sequence of maps from a key to its vector of ids.     *)

\* _wymum(x, y): l = x * y; l ^ (l >> 64).  The arithmetic is carried out on
\* 8 bits where the code has 64.
wymum(x, y) ==
    LET l == x * y
    IN  ToNat(Xor(FromNat(l % 256), FromNat((l \div 256) % 256)))

\* *seed += 0x..15; return _wymum(*seed ^ 0x..db, *seed), for every 8-bit seed
wyhash64_table ==
    [seed \in 0..255 |->
        LET s1 == (seed + 21) % 256
        IN  <<s1, wymum(ToNat(Xor(FromNat(s1), FromNat(219))), s1)>>]

\* wyhash64_stateless(&seed): <<the seed after the call, the value returned>>
wyhash64_stateless(seed) == wyhash64_table[seed]

\* XXH64_update(&state, &x, ITEMSIZE) on the running state
XXH64_update(state, x) == (state * 5 + x + 1) % 7

\* XXH3_64bits(&item[from], n * ITEMSIZE): a digest of the n registers
RECURSIVE XXH3_64bits(_, _, _, _)
XXH3_64bits(item, from, n, state) ==
    IF n = 0 THEN state
    ELSE XXH3_64bits(item, from + 1, n - 1, XXH64_update(state, item[from + 1]))

\* the loop of hash_index over nreg sampled registers
RECURSIVE hash_sampled(_, _, _, _, _)
hash_sampled(item, m_, seed, state, ri) ==
    IF ri = 0 THEN state
    ELSE LET w == wyhash64_stateless(seed)
         IN  hash_sampled(item, m_, w[1],
                          XXH64_update(state, item[(w[2] % m_) + 1]), ri - 1)

\* a key that depends on what the index holds
hash_index_by_size(ix, item, i, j) == ix.total_ids_ % 7

\* hash_index(item, i, j)
hash_index(ix, item, i, j) ==
    LET nreg == ix.regs_per_reg_[i + 1]
    IN  IF nreg >= 4 /\ (j + 1) * nreg <= ix.m_
        THEN XXH3_64bits(item, nreg * j, nreg, 0)
        ELSE LET seed == (i * 16 + j) % 256
             IN  hash_sampled(item, ix.m_, seed, seed % 7, nreg)

\* HashV(n): n empty maps
HashV(n) == [j \in 1..n |-> <<>>]

\* the loop of the constructor: for(; rpr <= m_;) { push; densified ? ++rpr : rpr <<= 1 }
RECURSIVE ssi_tables(_, _, _, _)
ssi_tables(m_, densified, rpr, ix) ==
    IF rpr > m_ THEN ix
    ELSE ssi_tables(m_, densified, IF densified THEN rpr + 1 ELSE rpr * 2,
                    [ix EXCEPT !.regs_per_reg_ = Append(@, rpr),
                               !.packed_maps_ = Append(@, HashV(m_ \div rpr))])

\* SetSketchIndex(m, densified)
SetSketchIndex(m_, densified) ==
    ssi_tables(m_, densified, 1,
               [m_ |-> m_, packed_maps_ |-> <<>>, regs_per_reg_ |-> <<>>,
                total_ids_ |-> 0])

ntables(ix) == Len(ix.packed_maps_)

\* a push at the front of the vector
push_front_id(map, key, id) ==
    IF key \in DOMAIN map THEN [map EXCEPT ![key] = <<id>> \o @]
    ELSE [k \in (DOMAIN map) \cup {key} |-> IF k = key THEN <<id>> ELSE map[k]]

\* subtab[j][myhash].push_back(my_id): operator[] makes the vector if the key is new
push_back_id(map, key, id) ==
    IF key \in DOMAIN map THEN [map EXCEPT ![key] = Append(@, id)]
    ELSE [k \in (DOMAIN map) \cup {key} |-> IF k = key THEN <<id>> ELSE map[k]]

\* an update that takes its id before it tests the size
update_id_first(ix, item) ==
    [threw |-> Len(item) # ix.m_, val |-> [ix EXCEPT !.total_ids_ = @ + 1]]

\* update(item): whether it threw, and the index when the call is left
update(ix, item) ==
    IF Len(item) # ix.m_ THEN [threw |-> TRUE, val |-> ix]
    ELSE Return([ix EXCEPT
           !.total_ids_ = @ + 1,
           !.packed_maps_ =
               [i \in 1..Len(ix.regs_per_reg_) |->
                   [j \in 1..Len(ix.packed_maps_[i]) |->
                       push_back_id(ix.packed_maps_[i][j],
                                    hash_index(ix, item, i - 1, j - 1),
                                    ix.total_ids_)]]])

\* a loop over the ids that pushes every id it meets
RECURSIVE query_ids_all(_, _, _)
query_ids_all(list, k, acc) ==
    IF k > Len(list) THEN acc
    ELSE query_ids_all(list, k + 1,
            [rset |-> [d \in (DOMAIN acc.rset) \cup {list[k]} |-> 1],
             passing_ids |-> Append(acc.passing_ids, list[k])])

\* for(const auto id: it->second): acc is [rset, passing_ids]
RECURSIVE query_ids(_, _, _)
query_ids(list, k, acc) ==
    IF k > Len(list) THEN acc
    ELSE LET id == list[k]
         IN  IF id \in DOMAIN acc.rset
             THEN query_ids(list, k + 1, [acc EXCEPT !.rset[id] = @ + 1])
             ELSE query_ids(list, k + 1,
                     [rset |-> [d \in (DOMAIN acc.rset) \cup {id} |->
                                   IF d = id THEN 1 ELSE acc.rset[d]],
                      passing_ids |-> Append(acc.passing_ids, id)])

\* for(j = 0; j < nsubs; ++j) over the rows of table i
RECURSIVE query_rows(_, _, _, _, _)
query_rows(ix, item, i, j, acc) ==
    IF j >= Len(ix.packed_maps_[i + 1]) THEN acc
    ELSE LET map == ix.packed_maps_[i + 1][j + 1]
             myhash == hash_index(ix, item, i, j)
         IN  IF myhash \notin DOMAIN map THEN query_rows(ix, item, i, j + 1, acc)
             ELSE query_rows(ix, item, i, j + 1, query_ids(map[myhash], 1, acc))

\* a stop test that wants more than maxcand ids
enough_strict(rset, maxcand) == Cardinality(DOMAIN rset) > maxcand

\* if(rset.size() >= maxcand) break;
enough(rset, maxcand) == Cardinality(DOMAIN rset) >= maxcand

\* for(i = starting_idx; --i >= 0;): i is the value after the decrement.  r is
\* [rset, passing_ids, items_per_row] and, for the statements about the walk,
\* visited (the tables indexed, in order) and oob (packed_maps_ was indexed at a
\* position >= its size).  Past the end the HashV read is junk of junk_rows rows;
\* with a row to hash, regs_per_reg_.at(i) throws std::out_of_range.
RECURSIVE query_tables(_, _, _, _, _, _)
query_tables(ix, item, maxcand, i, junk_rows, r) ==
    IF i < 0 THEN Return(r)
    ELSE IF i >= ntables(ix)
    THEN IF junk_rows > 0
         THEN [threw |-> TRUE,
               val |-> [r EXCEPT !.visited = Append(@, i), !.oob = TRUE]]
         ELSE LET r1 == [r EXCEPT !.visited = Append(@, i), !.oob = TRUE,
                                  !.items_per_row = Append(@, 0)]
              IN  IF enough(r.rset, maxcand) THEN Return(r1)
                  ELSE query_tables(ix, item, maxcand, i - 1, junk_rows, r1)
    ELSE LET acc == query_rows(ix, item, i, 0,
                               [rset |-> r.rset, passing_ids |-> r.passing_ids])
             r1 == [r EXCEPT !.rset = acc.rset, !.passing_ids = acc.passing_ids,
                             !.visited = Append(@, i),
                             !.items_per_row =
                                 Append(@, Len(acc.passing_ids) - Len(r.passing_ids))]
         IN  IF enough(acc.rset, maxcand) THEN Return(r1)
             ELSE query_tables(ix, item, maxcand, i - 1, junk_rows, r1)

\* query_candidates(item, maxcand, starting_idx); starting_idx = -1 is size_t(-1)
query_candidates(ix, item, maxcand, starting_idx, junk_rows) ==
    query_tables(ix, item, maxcand,
                 (IF starting_idx = -1 THEN Len(ix.regs_per_reg_) ELSE starting_idx) - 1,
                 junk_rows,
                 [rset |-> <<>>, passing_ids |-> <<>>, items_per_row |-> <<>>,
                  visited |-> <<>>, oob |-> FALSE])

----------------------------------------------------------------------------
(* The state machine: a program that constructs two filters, a and b, and   *)
(* calls the operations of a, with b as the other operand.                   *)
(*                                                                           *)
(* A const member function, and a call that throws, leave both filters as   *)
(* they were: whatever can follow such a call can follow the state before   *)
(* it.  A run therefore ends at such a call (last.kind is "const" or        *)
(* "throw"), and goes on after a call that changed a filter ("mut").        *)
(* last.pre is *this before the call, for the calls whose effect is stated  *)
(* against it.                                                               *)

\* Space::COUNT of the builds modelled: SSE2 (2 lanes) and AVX2 (4 lanes)
VectorWidths == {2, 4}

\* the nhashes arguments used: a few sub-hashes of one seed, and enough to need
\* the vector loop (more than COUNT * nhashesper64bitword at 2 lanes)
NhChoices == {2, 20}

\* the constructor arguments (l2sz, nhashes, seedval) of a, and those of b
ParamsA == ((OFFSET + 1)..MaxL2sz) \X NhChoices \X {1}
ParamsB == ((OFFSET + 1)..MaxL2sz) \X NhChoices \X (1..MaxSeedseed)

item(k) == FromNat(k)
Items == {item(k) : k \in 1..NumItems}

\* the vals arguments of the batch query: n items, taken in turn from Items
BatchSizes == {0, 3, 4, 64}
batch_vals(n) == [i \in 1..n |-> item(((i - 1) % NumItems) + 1)]

\* what a vector load finds past the end of an allocation
JunkWords == {{}, {0, 5}}

Call(op, kind, arg, ret, pre) ==
    [op |-> op, kind |-> kind, arg |-> arg, ret |-> ret, pre |-> pre]

Ready == fp = <<>> /\ last.kind \in {"init", "mut"}

\* a program that uses the filters alone: its index stays as constructed
NoIndex == ssi = SetSketchIndex(1, FALSE) /\ inserted = <<>>

\* a alone: b is a copy of a that no operation reads
InitFilter ==
    /\ COUNT \in VectorWidths
    /\ \E q \in ParamsA : a = bfbase_t(q[1], q[2], q[3], {}).val
    /\ b = a
    /\ fp = <<>>
    /\ last = Call("construct", "init", {}, FALSE, {})
    /\ NoIndex

\* a and b, constructed with arguments that differ in at most one position
InitPair ==
    /\ COUNT \in VectorWidths
    /\ \E q \in ParamsA, r \in ParamsB :
          /\ Cardinality({i \in 1..3 : q[i] # r[i]}) <= 1
          /\ a = bfbase_t(q[1], q[2], q[3], {}).val
          /\ b = bfbase_t(r[1], r[2], r[3], {}).val
    /\ fp = <<>>
    /\ last = Call("construct", "init", {}, FALSE, {})
    /\ NoIndex

Init == InitPair

----------------------------------------------------------------------------
(* One filter. *)

\* a.add(x)
Add ==
    /\ Ready /\ Addressable(a)
    /\ \E x \in Items :
          /\ a' = addh(a, x)
          /\ last' = Call("add", "mut", x, FALSE, {})
    /\ UNCHANGED <<ssi, inserted, COUNT, b, fp>>

\* a.may_contain(x)
MayContain ==
    /\ Ready /\ Addressable(a)
    /\ \E x \in Items :
          last' = Call("may_contain", "const", x, may_contain(a, x), a)
    /\ UNCHANGED <<ssi, inserted, COUNT, a, b, fp>>

\* a.may_contain_and_addh(x)
MayContainAndAdd ==
    /\ Ready /\ Addressable(a)
    /\ \E x \in Items :
          LET r == may_contain_and_addh(a, x)
          IN  /\ a' = r[1]
              /\ last' = Call("may_contain_and_addh", "mut", x, r[2], a)
    /\ UNCHANGED <<ssi, inserted, COUNT, b, fp>>

\* a.may_contain(vals, ret)
BatchMayContain ==
    /\ Ready /\ Addressable(a)
    /\ \E n \in BatchSizes :
          last' = Call("batch_may_contain", "const", n,
                       batch_may_contain(a, batch_vals(n)), a)
    /\ UNCHANGED <<ssi, inserted, COUNT, a, b, fp>>

\* a.halve()
Halve ==
    /\ Ready /\ Len(a.core_) > 0
    /\ a' = halve(a)
    /\ last' = Call("halve", "mut", {}, FALSE, a)
    /\ UNCHANGED <<ssi, inserted, COUNT, b, fp>>

\* a.clear()
Clear ==
    /\ Ready
    /\ a' = clear(a)
    /\ last' = Call("clear", "mut", {}, FALSE, {})
    /\ UNCHANGED <<ssi, inserted, COUNT, b, fp>>

\* a.popcnt()
Popcnt ==
    /\ Ready /\ Len(a.core_) > 0
    /\ \E junk \in JunkWords :
          last' = Call("popcnt", "const", junk, popcnt(a, junk), a)
    /\ UNCHANGED <<ssi, inserted, COUNT, a, b, fp>>

\* a.to_sparse_representation()
ToSparse ==
    /\ Ready /\ Len(a.core_) > 0
    /\ last' = Call("to_sparse_representation", "const", {},
                    to_sparse_representation(a), a)
    /\ UNCHANGED <<ssi, inserted, COUNT, a, b, fp>>

NextFilter ==
    \/ Add
    \/ MayContain
    \/ MayContainAndAdd
    \/ Halve
    \/ Clear
    \/ Popcnt
    \/ ToSparse

SpecFilter == InitFilter /\ [][NextFilter]_vars

NextBatch ==
    \/ Add
    \/ BatchMayContain

SpecBatch == InitFilter /\ [][NextBatch]_vars

----------------------------------------------------------------------------
(* Two filters. *)

\* b.add(x)
AddOther ==
    /\ Ready /\ Addressable(b)
    /\ \E x \in Items :
          /\ b' = addh(b, x)
          /\ last' = Call("add_other", "mut", {}, FALSE, {})
    /\ UNCHANGED <<ssi, inserted, COUNT, a, fp>>

\* a op= b for the four mutating operators: the call throws, or a is assigned
Assign(op, r) ==
    /\ Ready
    /\ IF r.threw
       THEN /\ last' = Call(op, "throw", {}, FALSE, a)
            /\ UNCHANGED a
       ELSE /\ last' = Call(op, "mut", {}, FALSE, a)
            /\ a' = r.val
    /\ UNCHANGED <<ssi, inserted, COUNT, b, fp>>

AndAssign == Assign("&=", and_assign(a, b))
XorAssign == Assign("^=", xor_assign(a, b))
OrAssign == Assign("|=", or_assign(a, b))
PlusAssign == Assign("+=", plus_assign(a, b))

\* a op b for the four operators that return a new filter: ret is that filter
Binary(op, r) ==
    /\ Ready
    /\ IF r.threw
       THEN last' = Call(op, "throw", {}, FALSE, a)
       ELSE last' = Call(op, "const", {}, r.val, a)
    /\ UNCHANGED <<ssi, inserted, COUNT, a, b, fp>>

OpAnd == Binary("&", op_and(a, b))
OpOr == Binary("|", op_or(a, b))
OpXor == Binary("^", op_xor(a, b))
OpPlus == Binary("+", op_plus(a, b))

\* a.intersection_count(b)
IntersectionCount ==
    /\ Ready /\ Len(a.core_) > 0 /\ Len(b.core_) > 0
    /\ \E junk \in JunkWords :
          LET r == intersection_count(a, b, junk)
          IN  IF r.threw
              THEN last' = Call("intersection_count", "throw", junk, FALSE, a)
              ELSE last' = Call("intersection_count", "const", junk, r.val, a)
    /\ UNCHANGED <<ssi, inserted, COUNT, a, b, fp>>

\* a.setbit_jaccard_index(b)
SetbitJaccardIndex ==
    /\ Ready /\ Len(a.core_) > 0 /\ Len(b.core_) > 0
    /\ LET r == setbit_jaccard_index(a, b)
       IN  IF r.threw
           THEN last' = Call("setbit_jaccard_index", "throw", {}, FALSE, a)
           ELSE last' = Call("setbit_jaccard_index", "const", {}, r.val, a)
    /\ UNCHANGED <<ssi, inserted, COUNT, a, b, fp>>

\* a.jaccard_index(b)
JaccardIndex ==
    /\ Ready /\ Len(a.core_) > 0 /\ Len(b.core_) > 0
    /\ LET r == jaccard_index(a, b)
       IN  IF r.threw
           THEN last' = Call("jaccard_index", "throw", {}, FALSE, a)
           ELSE last' = Call("jaccard_index", "const", {}, r.val, a)
    /\ UNCHANGED <<ssi, inserted, COUNT, a, b, fp>>

NextPair ==
    \/ Add
    \/ AddOther
    \/ AndAssign
    \/ XorAssign
    \/ OrAssign
    \/ PlusAssign
    \/ OpAnd
    \/ OpOr
    \/ OpXor
    \/ OpPlus
    \/ IntersectionCount
    \/ SetbitJaccardIndex
    \/ JaccardIndex

SpecPair == InitPair /\ [][NextPair]_vars

----------------------------------------------------------------------------
(* Serialization: b is written, and the stream is read into a or into a new *)
(* object (bfbase_t(path)).                                                  *)

\* b.write(fp)
Write ==
    /\ Ready
    /\ LET r == write(b)
       IN  IF r.threw
           THEN /\ last' = Call("write", "throw", {}, FALSE, a)
                /\ UNCHANGED fp
           ELSE /\ last' = Call("write", "mut", {}, Len(r.val), a)
                /\ fp' = r.val
    /\ UNCHANGED <<ssi, inserted, COUNT, a, b>>

\* a.read(fp)
Read ==
    /\ fp # <<>>
    /\ a' = read(a, fp)
    /\ fp' = <<>>
    /\ last' = Call("read", "mut", {}, FALSE, a)
    /\ UNCHANGED <<ssi, inserted, COUNT, b>>

\* a = bfbase_t(path)
ReadNew ==
    /\ fp # <<>>
    /\ a' = read(fresh, fp)
    /\ fp' = <<>>
    /\ last' = Call("read_new", "mut", {}, FALSE, a)
    /\ UNCHANGED <<ssi, inserted, COUNT, b>>

NextIO ==
    \/ AddOther
    \/ Write
    \/ Read
    \/ ReadNew

SpecIO == InitPair /\ [][NextIO]_vars

----------------------------------------------------------------------------
(* The whole program. *)

(* Resizing, copy assignment and clone. *)

\* the new_size arguments used: the powers of two of the constructor and one
\* value that roundup has to round
ResizeChoices == {Pow2(l) : l \in (OFFSET + 1)..MaxL2sz} \cup {Pow2(OFFSET) + 1}

\* a.resize(new_size)
Resize ==
    /\ Ready
    /\ \E new_size \in ResizeChoices :
          /\ a' = resize(a, new_size)
          /\ last' = Call("resize", "mut", new_size, FALSE, {})
    /\ UNCHANGED <<ssi, inserted, COUNT, b, fp>>

\* a = b
CopyAssign ==
    /\ Ready
    /\ a' = operator_assign(a, b)
    /\ last' = Call("operator=", "mut", {}, FALSE, a)
    /\ UNCHANGED <<ssi, inserted, COUNT, b, fp>>

NextStruct ==
    \/ Add
    \/ MayContainAndAdd
    \/ Clear
    \/ Resize
    \/ Halve
    \/ AndAssign
    \/ XorAssign
    \/ OrAssign
    \/ CopyAssign

SpecStruct == InitPair /\ [][NextStruct]_vars

\* b = a.clone(); the mask_ of a filter constructed without storage is whatever
\* the memory held
Clone ==
    /\ Ready
    /\ \E uninit \in JunkWords :
          LET r == clone(a, uninit)
          IN  IF r.threw
              THEN /\ last' = Call("clone", "throw", {}, FALSE, {})
                   /\ UNCHANGED b
              ELSE /\ last' = Call("clone", "mut", {}, FALSE, {})
                   /\ b' = r.val
    /\ UNCHANGED <<ssi, inserted, COUNT, a, fp>>

NextClone ==
    \/ Add
    \/ Clone
    \/ AndAssign
    \/ XorAssign
    \/ OrAssign

SpecClone == InitFilter /\ [][NextClone]_vars

----------------------------------------------------------------------------
(* The index: a program that constructs a SetSketchIndex and calls update    *)
(* and query_candidates on it.  A call of update that throws is caught and   *)
(* the program goes on; the run ends at a query.                             *)

\* the k-th sketch of n registers
sketch(k, n) == [q \in 1..n |-> IF q = k THEN 1 ELSE 0]

Sketches(n) == {sketch(k, n) : k \in 1..NumSketches}

\* sketches of a length other than n
WrongSketches(n) == {sketch(1, l) : l \in {n + 1} \cup (IF n > 0 THEN {n - 1} ELSE {})}

\* starting_idx: the default, every table count in range, and two past the end
StartChoices(ix) == (-1)..(ntables(ix) + 2)

\* maxcand
MaxCandChoices == {0, 1, 2}

\* the number of rows a HashV read past the end of packed_maps_ may show
JunkRows == {0, 1}

\* SetSketchIndex(m, densified); the power-of-two schedule takes ilog2(roundup(m)),
\* which is not defined for m = 0
InitIndex ==
    /\ COUNT = 2
    /\ a = bfbase_t(OFFSET + 1, 2, 1, {}).val
    /\ b = a
    /\ fp = <<>>
    /\ last = Call("construct", "init", {}, FALSE, {})
    /\ \E m_ \in 0..MaxM, densified \in BOOLEAN :
          /\ densified \/ m_ >= 1
          /\ ssi = SetSketchIndex(m_, densified)
    /\ inserted = <<>>

ReadyIndex == last.op \in {"construct", "update"}

\* ssi.update(item); ret is the id the call assigned
Update ==
    /\ ReadyIndex
    /\ \E v \in Sketches(ssi.m_) \cup WrongSketches(ssi.m_) :
          LET r == update(ssi, v)
          IN  IF r.threw
              THEN /\ last' = Call("update", "throw", v, FALSE, {})
                   /\ ssi' = r.val
                   /\ UNCHANGED inserted
              ELSE /\ Len(inserted) < MaxInserts
                   /\ ssi' = r.val
                   /\ inserted' = Append(inserted, v)
                   /\ last' = Call("update", "mut", v, ssi.total_ids_, {})
    /\ UNCHANGED <<COUNT, a, b, fp>>

\* ssi.query_candidates(item, maxcand, starting_idx)
QueryCandidates ==
    /\ ReadyIndex
    /\ \E v \in Sketches(ssi.m_), maxcand \in MaxCandChoices,
          starting_idx \in StartChoices(ssi), junk_rows \in JunkRows :
          LET r == query_candidates(ssi, v, maxcand, starting_idx, junk_rows)
          IN  last' = Call("query_candidates", IF r.threw THEN "throw" ELSE "const",
                           [item |-> v, maxcand |-> maxcand,
                            starting_idx |-> starting_idx],
                           r.val, {})
    /\ UNCHANGED <<COUNT, a, b, fp, ssi, inserted>>

NextIndex ==
    \/ Update
    \/ QueryCandidates

SpecIndex == InitIndex /\ [][NextIndex]_vars

----------------------------------------------------------------------------
Next ==
    \/ NextFilter
    \/ NextBatch
    \/ NextPair
    \/ NextIO
    \/ NextStruct
    \/ NextClone
    \/ NextIndex

Spec == Init /\ [][Next]_vars

----------------------------------------------------------------------------
(* What the storage holds, stated directly on the words. *)

\* bit i of the storage of f
bit_set(f, i) ==
    /\ i < m(f)
    /\ (i % WORDBITS) \in f.core_[(i \div WORDBITS) + 1]

\* the indices of the set bits of f
set_bits(f) == {i \in 0..(m(f) - 1) : bit_set(f, i)}

\* (np, nh, seedseed)
params_of(f) == <<f.np_, f.nh_, f.seedseed_>>

----------------------------------------------------------------------------
(* C1: immediately after add(x), may_contain(x) returns true. *)

C1_AddThenMayContain ==
    last.op = "add" => may_contain(a, last.arg)

\* an add that went through the vector loop of the seeds, on a filter that
\* already held another item
C1_Witness ==
    /\ last.op = "add"
    /\ a.nh_ > COUNT * nhashesper64bitword(p(a))
    /\ may_contain(a, last.arg)
    /\ \E y \in Items : y # last.arg /\ may_contain(a, y)

(* C2: what read() restores from the stream write() produced equals the     *)
(* filter written, in np, nh, seedseed, mask, the seeds and every word.     *)

C2_RoundTrip ==
    last.op \in {"read", "read_new"} =>
        /\ params_of(a) = params_of(b)
        /\ a.mask_ = b.mask_
        /\ a.seeds_ = b.seeds_
        /\ a.core_ = b.core_

(* C3: to_sparse_representation (for_each_nonzero) reports exactly the set  *)
(* bits, each once, with its true index, in ascending order.                *)

C3_IterSetBits ==
    last.op = "to_sparse_representation" =>
        /\ {last.ret[k] : k \in 1..Len(last.ret)} = set_bits(a)
        /\ \A k \in 1..(Len(last.ret) - 1) : last.ret[k] < last.ret[k + 1]

(* C4: halve() decrements np by one, halves the storage and m(), and keeps  *)
(* the seeds.                                                                *)

C4_HalveShrinks ==
    last.op = "halve" =>
        /\ a.np_ = last.pre.np_ - 1
        /\ 2 * Len(a.core_) = Len(last.pre.core_)
        /\ 2 * m(a) = m(last.pre)
        /\ a.seeds_ = last.pre.seeds_

(* C5: after halve() bit i is set iff bit i or bit i + m/2 was set before,  *)
(* and popcount() has not grown.                                             *)

C5_HalvingLaw ==
    last.op = "halve" =>
        /\ \A i \in 0..(m(a) - 1) :
              bit_set(a, i) <=>
                  (bit_set(last.pre, i) \/ bit_set(last.pre, i + (m(last.pre) \div 2)))
        /\ \A junk \in JunkWords : popcnt(a, junk) <= popcnt(last.pre, junk)

(* C6: may_contain_and_add(x) returns what may_contain(x) returned at entry *)
(* and leaves the filter as add(x) would have.                              *)

C6_MayContainAndAdd ==
    last.op = "may_contain_and_addh" =>
        /\ last.ret = may_contain(last.pre, last.arg)
        /\ a = addh(last.pre, last.arg)

\* a miss on a filter that already held some of the bits of x
C6_Witness ==
    /\ last.op = "may_contain_and_addh"
    /\ ~last.ret
    /\ set_bits(last.pre) # {}
    /\ set_bits(a) # set_bits(last.pre)
    /\ (set_bits(a) \ set_bits(last.pre)) # set_bits(addh(clear(a), last.arg))

(* C7: the batch query returns ceil(n/64) words, bit i mod 64 of word       *)
(* floor(i/64) is set iff may_contain(items[i]), and no store leaves them.  *)

C7_BatchLayout ==
    last.op = "batch_may_contain" =>
        /\ Len(last.ret.ret) = (last.arg + WORDBITS - 1) \div WORDBITS
        /\ ~last.ret.oob
        /\ \A i \in 0..(last.arg - 1) :
              ((i % WORDBITS) \in last.ret.ret[(i \div WORDBITS) + 1])
                  <=> may_contain(a, batch_vals(last.arg)[i + 1])

(* C8: the set operators throw when the operands differ in np, nh or        *)
(* seedseed, and then neither operand has changed.                          *)

SetOperators == {"&=", "^=", "|=", "+=", "&", "|", "^", "+"}

C8_MismatchThrows ==
    [][(last'.op \in SetOperators /\ params_of(a) # params_of(b)) =>
          (last'.kind = "throw" /\ a' = a /\ b' = b)]_vars

\* a throw on operands of the same size that differ in seedseed alone, the
\* receiver holding bits
C8_Witness ==
    /\ last.op \in SetOperators
    /\ last.kind = "throw"
    /\ a.np_ = b.np_ /\ a.nh_ = b.nh_ /\ a.seedseed_ # b.seedseed_
    /\ set_bits(a) # {}

(* C9: intersection_count, jaccard_index and setbit_jaccard_index throw     *)
(* when the operands differ in np, nh or seedseed.                          *)

Comparisons == {"intersection_count", "jaccard_index", "setbit_jaccard_index"}

C9_ComparisonsRequireSameParams ==
    (last.op \in Comparisons /\ params_of(a) # params_of(b)) => last.kind = "throw"

(* C10: setbit_jaccard_index returns (|A| + |B| - |A or B|) / |A or B|: the *)
(* numerator is |A and B|, the denominator |A or B|, which is not zero when *)
(* either filter has a set bit.                                              *)

C10_BitwiseJaccard ==
    (last.op = "setbit_jaccard_index" /\ last.kind = "const") =>
        /\ last.ret.num = Cardinality(set_bits(a) \cap set_bits(b))
        /\ last.ret.den = Cardinality(set_bits(a) \cup set_bits(b))
        /\ (set_bits(a) \cup set_bits(b) # {}) => last.ret.den # 0

(* C11: with identical parameters |= (and +=), &= and ^= replace every word *)
(* i of the receiver with receiver[i] OR / AND / XOR other[i], for every     *)
(* size and every vector width.                                              *)

C11_WordParallel ==
    (last.op \in {"&=", "^=", "|=", "+="} /\ last.kind = "mut") =>
        /\ Len(a.core_) = Len(last.pre.core_)
        /\ \A w \in 1..Len(a.core_) :
              a.core_[w] = CASE last.op = "&=" -> last.pre.core_[w] \cap b.core_[w]
                             [] last.op = "^=" -> Xor(last.pre.core_[w], b.core_[w])
                             [] OTHER -> last.pre.core_[w] \cup b.core_[w]

----------------------------------------------------------------------------
(* What the index holds and what a query should find, stated directly. *)

\* the elements of a sequence
Range(q) == {q[n] : n \in 1..Len(q)}

\* the ids table i holds under the keys of sketch v
ids_in_table(ix, v, i) ==
    UNION {LET map == ix.packed_maps_[i + 1][j]
               key == hash_index(ix, v, i, j - 1)
           IN  IF key \in DOMAIN map THEN Range(map[key]) ELSE {}
           : j \in 1..Len(ix.packed_maps_[i + 1])}

\* the table count a call starts from
start_of(ix, arg) ==
    IF arg.starting_idx = -1 THEN ntables(ix) ELSE arg.starting_idx

\* a query that returned, with starting_idx in range
QueryInRange ==
    /\ last.op = "query_candidates"
    /\ last.kind = "const"
    /\ start_of(ssi, last.arg) <= ntables(ssi)

\* the sum of the first k entries of items_per_row
RECURSIVE counts_upto(_, _)
counts_upto(c, k) == IF k = 0 THEN 0 ELSE c[k] + counts_upto(c, k - 1)

(* C12: after k successful updates total_ids_ is k, the j-th of them got id  *)
(* j, every posting list is strictly increasing, and every id is in exactly  *)
(* one posting list of every map of every table.                             *)

C12_IdsMonotone ==
    /\ ssi.total_ids_ = Len(inserted)
    /\ (last.op = "update" /\ last.kind = "mut") => last.ret = Len(inserted) - 1
    /\ \A i \in 1..ntables(ssi) : \A j \in 1..Len(ssi.packed_maps_[i]) :
          LET map == ssi.packed_maps_[i][j]
          IN  /\ \A key \in DOMAIN map : \A n \in 1..(Len(map[key]) - 1) :
                    map[key][n] < map[key][n + 1]
              /\ \A id \in 0..(ssi.total_ids_ - 1) :
                    Cardinality({key \in DOMAIN map : id \in Range(map[key])}) = 1

\* three sketches are in, one map has two keys and one posting list two ids
C12_Witness ==
    /\ last.op = "update" /\ last.kind = "mut"
    /\ Len(inserted) = MaxInserts
    /\ \E i \in 1..ntables(ssi) : \E j \in 1..Len(ssi.packed_maps_[i]) :
          /\ Cardinality(DOMAIN ssi.packed_maps_[i][j]) >= 2
          /\ \E key \in DOMAIN ssi.packed_maps_[i][j] :
                Len(ssi.packed_maps_[i][j][key]) >= 2

(* C13, as stated: query_candidates(v, 1) with the default starting_idx      *)
(* returns the id of every update(v) made before, whatever the index.        *)

C13_Recall ==
    (/\ last.op = "query_candidates"
     /\ last.arg.maxcand = 1
     /\ last.arg.starting_idx = -1) =>
        \A k \in 1..Len(inserted) :
            inserted[k] = last.arg.item => (k - 1) \in Range(last.ret.passing_ids)

(* C13, amended: the same for an index of sketches of m >= 1 registers, the  *)
(* indexes that have a table.                                                *)

C13_RecallWithTables ==
    (/\ last.op = "query_candidates"
     /\ last.arg.maxcand = 1
     /\ last.arg.starting_idx = -1
     /\ ssi.m_ >= 1) =>
        \A k \in 1..Len(inserted) :
            inserted[k] = last.arg.item => (k - 1) \in Range(last.ret.passing_ids)

\* v went in second, between two other sketches, keyed by a contiguous window
C13_Witness ==
    /\ last.op = "query_candidates"
    /\ last.arg.maxcand = 1
    /\ last.arg.starting_idx = -1
    /\ ssi.m_ >= 4
    /\ Len(inserted) = 3
    /\ inserted[2] = last.arg.item
    /\ inserted[1] # last.arg.item /\ inserted[3] # last.arg.item
    /\ 1 \in Range(last.ret.passing_ids)

(* C14: the ids returned have no duplicate, items_per_row has one entry per  *)
(* visited table, and its entries cut the ids into consecutive slices, the   *)
(* slice of a table holding the ids first seen in that table.                *)

C14_CountsPartitionIds ==
    QueryInRange =>
        LET ids == last.ret.passing_ids
            c == last.ret.items_per_row
            t == last.ret.visited
        IN  /\ Cardinality(Range(ids)) = Len(ids)
            /\ Len(c) = Len(t)
            /\ counts_upto(c, Len(c)) = Len(ids)
            /\ \A k \in 1..Len(c) :
                  {ids[n] : n \in (counts_upto(c, k - 1) + 1)..counts_upto(c, k)}
                     = ids_in_table(ssi, last.arg.item, t[k])
                         \ UNION {ids_in_table(ssi, last.arg.item, t[n]) : n \in 1..(k - 1)}

\* two tables gave ids and an id of the first was met again in the second
C14_Witness ==
    /\ QueryInRange
    /\ Len(last.ret.items_per_row) >= 2
    /\ last.ret.items_per_row[1] >= 1
    /\ last.ret.items_per_row[2] >= 1
    /\ ids_in_table(ssi, last.arg.item, last.ret.visited[1])
          \cap ids_in_table(ssi, last.arg.item, last.ret.visited[2]) # {}

(* C15, as stated: tables are visited from starting_idx - 1 downwards with   *)
(* none skipped; if fewer than starting_idx were visited the counts sum to   *)
(* >= maxcand and all but the last sum to < maxcand; if the counts sum to    *)
(* < maxcand every table was visited.                                        *)

C15_StopRule ==
    QueryInRange =>
        LET c == last.ret.items_per_row
            t == last.ret.visited
            s == start_of(ssi, last.arg)
        IN  /\ Len(t) <= s
            /\ \A k \in 1..Len(t) : t[k] = s - k
            /\ Len(t) < s =>
                  /\ counts_upto(c, Len(c)) >= last.arg.maxcand
                  /\ counts_upto(c, Len(c) - 1) < last.arg.maxcand
            /\ counts_upto(c, Len(c)) < last.arg.maxcand => Len(t) = s

(* C15, amended: the same for maxcand >= 1; with maxcand = 0 and a table to  *)
(* start from, exactly one table is visited.                                 *)

C15_StopRuleAmended ==
    QueryInRange =>
        LET c == last.ret.items_per_row
            t == last.ret.visited
            s == start_of(ssi, last.arg)
        IN  /\ Len(t) <= s
            /\ \A k \in 1..Len(t) : t[k] = s - k
            /\ (Len(t) < s /\ last.arg.maxcand >= 1) =>
                  /\ counts_upto(c, Len(c)) >= last.arg.maxcand
                  /\ counts_upto(c, Len(c) - 1) < last.arg.maxcand
            /\ (last.arg.maxcand = 0 /\ s >= 1) => Len(t) = 1
            /\ \A k \in 1..(Len(t) - 1) : counts_upto(c, k) < last.arg.maxcand
            /\ counts_upto(c, Len(c)) < last.arg.maxcand => Len(t) = s

\* a walk that went through a table without reaching maxcand and stopped at the
\* next, before table 0
C15_Witness ==
    /\ QueryInRange
    /\ last.arg.maxcand = 2
    /\ Len(last.ret.visited) >= 2
    /\ Len(last.ret.visited) < start_of(ssi, last.arg)
    /\ last.ret.items_per_row[1] = 1

(* C16: update of a sketch whose length is not m_ throws and leaves the      *)
(* index as it was, and a successful update gets the number of successful    *)
(* updates before it as its id, whatever calls failed in between.            *)

C16_ShapeMismatch ==
    [][/\ (last'.op = "update" /\ Len(last'.arg) # ssi.m_) =>
             (last'.kind = "throw" /\ ssi' = ssi /\ inserted' = inserted)
       /\ (last'.op = "update" /\ last'.kind = "mut") =>
             (last'.ret = Len(inserted) /\ ssi'.total_ids_ = Len(inserted) + 1)]_vars

\* a failed update on an index that holds sketches
C16_Witness ==
    /\ last.op = "update" /\ last.kind = "throw"
    /\ Len(last.arg) # ssi.m_
    /\ Len(inserted) >= 1
    /\ ssi.total_ids_ = Len(inserted)

(* C17: query_candidates with starting_idx > ntables() throws before it      *)
(* reads a table, returns no ids, and never indexes packed_maps_ at a        *)
(* position >= ntables().                                                    *)

C17_StartOutOfRange ==
    (last.op = "query_candidates" /\ last.arg.starting_idx > ntables(ssi)) =>
        /\ last.kind = "throw"
        /\ last.ret.visited = <<>>
        /\ ~last.ret.oob

(* C18: in every state reached by add, may_contain_and_add, clear, resize,   *)
(* halve, the set operators with a same-params filter and copy assignment,   *)
(* the storage holds 2^np words, 1 <= np <= 40, mask_ is m() - 1 and the     *)
(* seeds cover nh hashes.                                                    *)

C18_Structure ==
    /\ Len(a.core_) = Pow2(a.np_)
    /\ 1 <= a.np_ /\ a.np_ <= MAXNP
    /\ a.mask_ = FromNat(m(a) - 1)
    /\ Len(a.seeds_) * nhashesper64bitword(p(a)) >= a.nh_

(* C19: clone() returns an empty filter with the parameters of the filter    *)
(* cloned, so that the set operators accept it.                              *)

C19_CloneSameParams ==
    last.op = "clone" =>
        /\ last.kind = "mut"
        /\ set_bits(b) = {}
        /\ params_of(b) = params_of(a)
        /\ m(b) = m(a)
        /\ b.seeds_ = a.seeds_
        /\ ~or_assign(a, b).threw
        /\ ~and_assign(a, b).threw
        /\ ~xor_assign(a, b).threw

====
